---- MODULE Spec2Model ----
(***************************************************************************)
(* Model of zvukiStats: the load operation (main -> Fetcher.execute_tasks  *)
(* -> create_tasks -> get_total_pages -> fetch_and_insert -> insert_docs), *)
(* the drop_collection operation, the "most prolific" and the average      *)
(* aggregation queries of DBManager, the statistics panel                  *)
(* (PanelQueryHandler.await_all_queries) and the lookup of an author or a  *)
(* book (get_instance_queryset, create_rich_table).                        *)
(*                                                                         *)
(* One process invocation is one execution of main().  The document store  *)
(* outlives the process, everything else is per-process state.             *)
(* asyncio runs the page tasks cooperatively: a task runs without          *)
(* interruption between two awaits, so every action below is the code      *)
(* between two suspension points.                                          *)
(***************************************************************************)
EXTENDS Integers, Sequences, FiniteSets, TLC

\* ---------------------------------------------------------------- bounds
\* largest catalog size (the `count` field) explored with the small page sizes
MaxCount == 5
\* largest number of page tasks of one run that is explored
MaxTasks == 3
\* number of process invocations (main() executions) in one behaviour
MaxRuns == 3
\* number of get_total_pages evaluations recorded by the page-math specification
MaxCalls == 2
\* largest number of documents of a store the aggregation queries are run on
MaxDocs == 4

\* page sizes (Fetcher.chunk_size) explored besides the production value
SmallChunks == {1, 2, 3}
\* Fetcher(db_manager, 1000) in __main__.py
ProductionChunk == 1000
\* the page-count scenario: page size 1000, catalog size 2500
Scenario == <<1000, 2500>>
\* largest catalog size and page size of the page-math specification
MaxPageCount == 14
MaxPageSize == 6
\* largest number of documents of one author in the stores of the average
\* queries
MaxGroup == 6
\* {'$match': {'sum_books': {'$gte': 5}}}
MinBooks == 5
\* largest number of words of a lookup query, the over-long query apart, and
\* largest number of documents in the stores of the lookup
MaxWords == 3
MaxBooks == 2
\* get_instance_queryset: `if len_args > 9`
MaxQueryWords == 9

VARIABLES
    store,          \* db.test_collection: the documents, in insertion order
    chunk_size,     \* Fetcher.chunk_size
    api_count,      \* number of items of the remote catalog
    runs,           \* number of process invocations so far
    args,           \* console_args of the running process
    pc,             \* position of main()
    exit_code,      \* exit status of the process, NoExit while it runs
    session,        \* the ClientSession of execute_tasks
    total_pages,    \* value returned by get_total_pages
    task_list,      \* task_list of create_tasks: the page number of each task
    task_pc,        \* position of each fetch_and_insert task
    task_content,   \* `page` and `content` of each fetch_and_insert task
    task_outcome,   \* how each task resolved
    verify_resp,    \* get_total_pages: the answer to the verification request
    requests,       \* the GET requests sent, as <<limit, page, purpose>>
    insert_calls,   \* number of calls of DBManager.insert_docs
    log,            \* logger / console output of the process
    page_calls,     \* page-math specification: results of get_total_pages
    cursor,         \* aggregation specification: documents of the last cursor
    ranking,        \* aggregation specification: the sorted groups of the last pipeline
    query,          \* aggregation specification: name of the last query
    prev,           \* the process that ran before this one: its arguments
                    \* and the size of the store it left
    results,        \* PanelQueryHandler.results
    panel_pc,       \* position of PanelQueryHandler.await_all_queries
    words,          \* get_instance_queryset: args, the words of the query
    instance,       \* get_instance_queryset: instance, the field searched
    query_string,   \* get_instance_queryset: query_string
    len_args,       \* get_instance_queryset: len_args
    combo,          \* get_instance_queryset: position of the permutations iterator
    probes,         \* the count_docs calls made, with their results
    searches,       \* the find_instance_stats calls made
    lookup_result,  \* what get_instance_queryset returned
    table           \* rows of the table of create_rich_table

vars == <<store, chunk_size, api_count, runs, args, pc, exit_code, session,
          total_pages, task_list, task_pc, task_content, task_outcome,
          verify_resp, requests, insert_calls, log, page_calls, cursor,
          ranking, query, prev, results, panel_pc, words, instance,
          query_string, len_args, combo, probes, searches, lookup_result,
          table>>

statVars == <<cursor, ranking, query>>
panelVars == <<results, panel_pc>>
lookupVars == <<words, instance, query_string, len_args, combo, probes,
                searches, lookup_result, table>>

NoExit == 0 - 1
\* prev of the first process
NoRun == [args |-> "none", docs |-> 0]
\* lookup_result while get_instance_queryset has not returned
NoResult == [kind |-> "none", pattern |-> <<>>, header |-> <<>>]
\* verify_resp before the verification request is answered
NoResponse == [kind |-> "none", has_count |-> FALSE, count |-> 0]

\* ------------------------------------------------------- remote catalog
Person(name) == [cover_name |-> name, uri |-> <<"uri", name>>]
\* a document without the main_author or main_actor field
NoPerson == [cover_name |-> "null", uri |-> <<"null">>]

Authors == <<Person("Komsomolskaya pravda"), Person("Tolstoy"), Person("Chekhov")>>
Actors == <<Person("Anonymous"), Person("Narrator")>>

\* the i-th item of the remote catalog
CatalogItem(i) ==
    [id |-> i,
     main_author |-> Authors[(i % 3) + 1],
     main_actor |-> Actors[(i % 2) + 1],
     global_rating |-> i % 5,
     reviews_count |-> i % 4]

Min(a, b) == IF a < b THEN a ELSE b
Max(a, b) == IF a < b THEN b ELSE a

\* `results` of GET ...?limit=limit&page=page on a catalog of count items
PageResults(page, limit, count) ==
    LET n == Max(0, Min(limit, count - (page - 1) * limit))
    IN  [k \in 1..n |-> CatalogItem((page - 1) * limit + k)]

\* ------------------------------------------------------------ page math
\* round half up instead of round half to even
Round_half_up(n, d) == (2 * n + d) \div (2 * d)

\* Python 3 round(n / d) for n >= 0, d > 0: round half to even
Round(n, d) ==
    LET q == n \div d
        r == n % d
    IN  IF 2 * r < d THEN q
        ELSE IF 2 * r > d THEN q + 1
        ELSE IF q % 2 = 0 THEN q ELSE q + 1

\* the page count without the added page
get_total_pages_no_extra(count, size) == Round(count, size)

\* Fetcher.get_total_pages, line 83
get_total_pages(count, size) == Round(count, size) + 1

\* range(1, count + 1)
create_tasks_inclusive(count) == [k \in 1..count |-> k]

\* Fetcher.create_tasks, line 49: range(1, count)
create_tasks(count) == [k \in 1..(count - 1) |-> k]

\* ---------------------------------------------------------------- store
\* a check that tolerates one document (num_docs <= 1)
is_empty_collection_lenient(s) == Len(s) <= 1

\* a check that never refuses
is_empty_collection_always(s) == Len(s) >= 0

\* DBManager.is_empty_collection
is_empty_collection(s) == Len(s) = 0

\* an insert that replaces the collection
insert_docs_replace(s, documents) == documents

\* DBManager.insert_docs: insert_many appends the documents
insert_docs(s, documents) == s \o documents

\* delete_one instead of drop: one document removed
drop_collection_one(s) == IF s = <<>> THEN s ELSE Tail(s)

\* DBManager.drop_collection
drop_collection(s) == <<>>

\* db.test_collection.full_name, the value drop_collection returns
full_name == "test_database.test_collection"

\* an insert_many that accepts anything
InsertRejects_never(content) == FALSE

\* insert_many raises TypeError unless documents is a non-empty list
InsertRejects(content) == (~content.present) \/ content.docs = <<>>

\* ------------------------------------------------------------- failures
\* fetch_and_insert without the `except Exception` clause
Absorbed_client_only(kind) == kind \in {"InvalidURL", "ClientError"}

\* the except clauses of fetch_and_insert
Absorbed(kind) == kind \in {"InvalidURL", "ClientError", "Exception"}

\* page.get("count", 0): a missing count read as 0
UsableCount_default(resp) == resp.kind = "ok"

\* page.get("count") of get_total_pages is usable by the division
UsableCount(resp) == resp.kind = "ok" /\ resp.has_count

\* a wait that returns with the first resolved task
gather_done_first(tpc) == tpc = <<>> \/ \E i \in DOMAIN tpc : tpc[i] = "done"

\* asyncio.gather(*task_list) returns
gather_done(tpc) == \A i \in DOMAIN tpc : tpc[i] = "done"

\* ------------------------------------------------------------ log lines
ErrorLine(kind, page) == [level |-> "error", msg |-> kind, page |-> page]
InfoLine(msg, page) == [level |-> "info", msg |-> msg, page |-> page]
ConsoleLine(msg) == [level |-> "console", msg |-> msg, page |-> 0]

\* ------------------------------------------------------ initial states
Configs ==
    {c \in (SmallChunks \X (0..MaxCount))
           \cup {<<ProductionChunk, 0>>, Scenario} :
        Round(c[2], c[1]) <= MaxTasks}

InitRun ==
    /\ args = "none"
    /\ pc = "idle"
    /\ exit_code = NoExit
    /\ session = "none"
    /\ total_pages = 0
    /\ task_list = <<>>
    /\ task_pc = <<>>
    /\ task_content = <<>>
    /\ task_outcome = <<>>
    /\ verify_resp = NoResponse
    /\ requests = <<>>
    /\ insert_calls = 0
    /\ log = <<>>

InitStat ==
    /\ cursor = <<>>
    /\ ranking = <<>>
    /\ query = "none"

InitPanel ==
    /\ results = <<>>
    /\ panel_pc = "none"

InitLookup ==
    /\ words = <<>>
    /\ instance = "none"
    /\ query_string = <<>>
    /\ len_args = 0
    /\ combo = 0
    /\ probes = <<>>
    /\ searches = <<>>
    /\ lookup_result = NoResult
    /\ table = <<>>

Init ==
    /\ \E c \in Configs : chunk_size = c[1] /\ api_count = c[2]
    /\ store = <<>>
    /\ runs = 0
    /\ page_calls = <<>>
    /\ prev = NoRun
    /\ InitRun
    /\ InitStat
    /\ InitPanel
    /\ InitLookup

\* ----------------------------------------------------------------- main
\* python -m zvukiStats --load | --drop_collection: get_db, read_console_args
Start(a) ==
    /\ pc \in {"idle", "finished", "exited"}
    /\ runs < MaxRuns
    /\ runs' = runs + 1
    /\ args' = a
    /\ pc' = "main"
    /\ exit_code' = NoExit
    /\ session' = "none"
    /\ total_pages' = 0
    /\ task_list' = <<>>
    /\ task_pc' = <<>>
    /\ task_content' = <<>>
    /\ task_outcome' = <<>>
    /\ verify_resp' = NoResponse
    /\ requests' = <<>>
    /\ insert_calls' = 0
    /\ log' = <<>>
    /\ prev' = [args |-> args, docs |-> Len(store)]
    /\ UNCHANGED <<store, chunk_size, api_count, page_calls, statVars,
                   panelVars, lookupVars>>

\* main, lines 42-45: the load branch refuses a non-empty collection
LoadRefused ==
    /\ pc = "main"
    /\ args = "load"
    /\ ~is_empty_collection(store)
    /\ log' = Append(log, ConsoleLine("NON_EMPTY_COL_ERROR_MSG"))
    /\ pc' = "exited"
    /\ exit_code' = 1
    /\ UNCHANGED <<store, chunk_size, api_count, runs, args, session,
                   total_pages, task_list, task_pc, task_content, task_outcome,
                   verify_resp, requests, insert_calls, page_calls, prev, panelVars, lookupVars, statVars>>

\* main line 47, execute_tasks line 39, create_tasks line 48,
\* get_total_pages line 80: the session is opened and the verification
\* request (limit=1, page=1) is sent
Verify ==
    /\ pc = "main"
    /\ args = "load"
    /\ is_empty_collection(store)
    /\ session' = "open"
    /\ requests' = Append(requests, <<1, 1, "verification">>)
    /\ pc' = "verifying"
    /\ UNCHANGED <<store, chunk_size, api_count, runs, args, exit_code,
                   total_pages, task_list, task_pc, task_content, task_outcome,
                   verify_resp, insert_calls, log, page_calls, prev, panelVars, lookupVars, statVars>>

\* the answers of the API to the verification request
VerifyResponses ==
    {[kind |-> "ok", has_count |-> TRUE, count |-> api_count],
     [kind |-> "ok", has_count |-> FALSE, count |-> 0],
     [kind |-> "error", has_count |-> FALSE, count |-> 0]}

\* get_total_pages lines 81-91 and create_tasks lines 49-53
VerifyResponse(resp) ==
    /\ pc = "verifying"
    /\ verify_resp' = resp
    /\ IF UsableCount(resp)
       THEN LET count == get_total_pages(resp.count, chunk_size)
                tasks == create_tasks(count)
            IN  /\ total_pages' = count
                /\ task_list' = tasks
                /\ task_pc' = [i \in DOMAIN tasks |-> "created"]
                /\ task_content' = [i \in DOMAIN tasks |->
                                      [fetched |-> FALSE, present |-> FALSE,
                                       docs |-> <<>>]]
                /\ task_outcome' = [i \in DOMAIN tasks |-> "pending"]
                /\ pc' = "gather"
                /\ UNCHANGED <<log, exit_code, session>>
       ELSE /\ log' = Append(log, ErrorLine("verification", 1))
            /\ session' = "closed"
            /\ exit_code' = 1
            /\ pc' = "exited"
            /\ UNCHANGED <<total_pages, task_list, task_pc, task_content,
                           task_outcome>>
    /\ UNCHANGED <<store, chunk_size, api_count, runs, args, requests,
                   insert_calls, page_calls, prev, panelVars, lookupVars, statVars>>

\* ------------------------------------------------------ fetch_and_insert
\* a task resolves with an exception of the given kind raised inside the try
\* block of fetch_and_insert (lines 63-73); an exception no clause catches
\* would leave gather and execute_tasks and end the process
TaskFail(i, kind) ==
    /\ task_outcome' = [task_outcome EXCEPT ![i] = kind]
    /\ IF Absorbed(kind)
       THEN /\ task_pc' = [task_pc EXCEPT ![i] = "done"]
            /\ log' = Append(log, ErrorLine(kind, task_list[i]))
            /\ UNCHANGED <<pc, exit_code, session>>
       ELSE /\ task_pc' = [task_pc EXCEPT ![i] = "raised"]
            /\ session' = "closed"
            /\ pc' = "exited"
            /\ exit_code' = 1
            /\ UNCHANGED log

\* fetch_and_insert line 58: the task starts and calls session.get(url).
\* The event loop starts the tasks in the order create_tasks created them.
\* aiohttp raises InvalidURL before anything is sent.
TaskStart(i) ==
    /\ pc = "gather"
    /\ i \in DOMAIN task_list
    /\ task_pc[i] = "created"
    /\ \A j \in 1..(i - 1) : task_pc[j] # "created"
    /\ \/ /\ requests' = Append(requests, <<chunk_size, task_list[i], "page">>)
          /\ task_pc' = [task_pc EXCEPT ![i] = "get"]
          /\ UNCHANGED <<task_outcome, log, pc, exit_code, session>>
       \/ /\ TaskFail(i, "InvalidURL")
          /\ UNCHANGED requests
    /\ UNCHANGED <<store, chunk_size, api_count, runs, args, total_pages,
                   task_list, task_content, verify_resp, insert_calls,
                   page_calls, prev, panelVars, lookupVars, statVars>>

\* what the awaits of lines 58-59 (session.get, response.json) end with
FetchOutcomes == {"results", "no_results", "ClientError", "Exception"}

\* fetch_and_insert lines 58-61: the response arrives, page.get("results")
\* is taken and insert_docs(content) is called
TaskResponse(i, outcome) ==
    /\ pc = "gather"
    /\ i \in DOMAIN task_list
    /\ task_pc[i] = "get"
    /\ IF outcome \in {"results", "no_results"}
       THEN /\ task_content' = [task_content EXCEPT ![i] =
                  IF outcome = "results"
                  THEN [fetched |-> TRUE, present |-> TRUE,
                        docs |-> PageResults(task_list[i], chunk_size, api_count)]
                  ELSE [fetched |-> TRUE, present |-> FALSE, docs |-> <<>>]]
            /\ task_pc' = [task_pc EXCEPT ![i] = "insert"]
            /\ insert_calls' = insert_calls + 1
            /\ UNCHANGED <<task_outcome, log, pc, exit_code, session>>
       ELSE /\ TaskFail(i, outcome)
            /\ UNCHANGED <<task_content, insert_calls>>
    /\ UNCHANGED <<store, chunk_size, api_count, runs, args, total_pages,
                   task_list, verify_resp, requests, page_calls, prev, panelVars, lookupVars, statVars>>

\* insert_docs lines 82-83 and fetch_and_insert line 62: insert_many either
\* stores the whole batch or raises
TaskInsert(i, accepted) ==
    /\ pc = "gather"
    /\ i \in DOMAIN task_list
    /\ task_pc[i] = "insert"
    /\ IF accepted /\ ~InsertRejects(task_content[i])
       THEN /\ store' = insert_docs(store, task_content[i].docs)
            /\ log' = log \o <<InfoLine("inserted", Len(task_content[i].docs)),
                               InfoLine("processed", task_list[i])>>
            /\ task_pc' = [task_pc EXCEPT ![i] = "done"]
            /\ task_outcome' = [task_outcome EXCEPT ![i] = "inserted"]
            /\ UNCHANGED <<pc, exit_code, session>>
       ELSE /\ TaskFail(i, "Exception")
            /\ UNCHANGED store
    /\ UNCHANGED <<chunk_size, api_count, runs, args, total_pages, task_list,
                   task_content, verify_resp, requests, insert_calls,
                   page_calls, prev, panelVars, lookupVars, statVars>>

\* execute_tasks line 41 and main lines 48-51: gather returns, the session
\* is closed and the load time is reported
GatherReturn ==
    /\ pc = "gather"
    /\ gather_done(task_pc)
    /\ session' = "closed"
    /\ log' = Append(log, ConsoleLine("load time"))
    /\ pc' = "finished"
    /\ exit_code' = 0
    /\ UNCHANGED <<store, chunk_size, api_count, runs, args, total_pages,
                   task_list, task_pc, task_content, task_outcome,
                   verify_resp, requests, insert_calls, page_calls, prev, panelVars, lookupVars, statVars>>

\* main lines 54-56: the drop_collection branch
Drop ==
    /\ pc = "main"
    /\ args = "drop_collection"
    /\ store' = drop_collection(store)
    /\ log' = Append(log, ConsoleLine(full_name))
    /\ pc' = "finished"
    /\ exit_code' = 0
    /\ UNCHANGED <<chunk_size, api_count, runs, args, session, total_pages,
                   task_list, task_pc, task_content, task_outcome,
                   verify_resp, requests, insert_calls, page_calls, prev, panelVars, lookupVars, statVars>>

Next ==
    \/ \E a \in {"load", "drop_collection"} : Start(a)
    \/ LoadRefused
    \/ Verify
    \/ \E resp \in VerifyResponses : VerifyResponse(resp)
    \/ \E i \in DOMAIN task_list : TaskStart(i)
    \/ \E i \in DOMAIN task_list, o \in FetchOutcomes : TaskResponse(i, o)
    \/ \E i \in DOMAIN task_list, ok \in BOOLEAN : TaskInsert(i, ok)
    \/ GatherReturn
    \/ Drop

Spec == Init /\ [][Next]_vars

\* ------------------------------------------------------------ page math
\* get_total_pages evaluated repeatedly on one verification answer:
\* positive catalog sizes and page sizes
InitPages ==
    /\ chunk_size \in (1..MaxPageSize) \cup {ProductionChunk}
    /\ api_count \in (1..MaxPageCount) \cup {Scenario[2]}
    /\ store = <<>>
    /\ runs = 0
    /\ page_calls = <<>>
    /\ prev = NoRun
    /\ InitRun
    /\ InitStat
    /\ InitPanel
    /\ InitLookup

\* get_total_pages line 83 on the count of the verification answer
PageCall ==
    /\ Len(page_calls) < MaxCalls
    /\ page_calls' = Append(page_calls, get_total_pages(api_count, chunk_size))
    /\ UNCHANGED <<store, chunk_size, api_count, runs, args, pc, exit_code,
                   session, total_pages, task_list, task_pc, task_content,
                   task_outcome, verify_resp, requests, insert_calls, log,
                   prev, statVars, panelVars, lookupVars>>

NextPages == PageCall

SpecPages == InitPages /\ [][NextPages]_vars

\* ---------------------------------------------------------- aggregation
\* the documents the aggregation queries are run on
StatDoc(author, actor) ==
    [id |-> 0, main_author |-> author, main_actor |-> actor,
     global_rating |-> 0, reviews_count |-> 0]

StatPool ==
    {StatDoc(Authors[1], Actors[1]), StatDoc(Authors[2], Actors[1]),
     StatDoc(Authors[3], Actors[2]), StatDoc(NoPerson, NoPerson)}

StatStores == UNION {[1..n -> StatPool] : n \in 0..MaxDocs}

\* the documents of s whose grouping key (the cover_name of field) is name
Members(s, field, name) == {k \in DOMAIN s : s[k][field].cover_name = name}

\* {'$first': ...}: the field of the first document of the group
FirstOf(s, field, name) ==
    LET m == Members(s, field, name)
    IN  s[CHOOSE k \in m : \A l \in m : k <= l][field]

\* the $group stage of find_most_prolific_author, lines 174-178
AuthorGroups(s) ==
    {[_id |-> name,
      num_books |-> Cardinality(Members(s, "main_author", name)),
      uri |-> FirstOf(s, "main_author", name).uri] :
        name \in {s[k].main_author.cover_name : k \in DOMAIN s}}

\* the $group stage of find_most_prolific_narrator, lines 192-196
NarratorGroups(s) ==
    {[_id |-> name,
      books_narrated |-> Cardinality(Members(s, "main_actor", name)),
      uri |-> FirstOf(s, "main_actor", name).uri] :
        name \in {s[k].main_actor.cover_name : k \in DOMAIN s}}

\* {'$sort': (field, -1)}: every descending order of the groups; groups
\* with equal values come in any order
SortDescending(groups, field) ==
    {f \in [1..Cardinality(groups) -> groups] :
        /\ \A i, j \in DOMAIN f : i # j => f[i] # f[j]
        /\ \A i, j \in DOMAIN f : i < j => f[i][field] >= f[j][field]}

\* a pipeline without the $skip stage
SkipStage_none(seq, n) == seq

\* {'$skip': n}
SkipStage(seq, n) == SubSeq(seq, n + 1, Len(seq))

\* {'$limit': n}
LimitStage(seq, n) == SubSeq(seq, 1, Min(n, Len(seq)))

InitStats ==
    /\ store \in StatStores
    /\ chunk_size = ProductionChunk
    /\ api_count = 0
    /\ runs = 0
    /\ page_calls = <<>>
    /\ prev = NoRun
    /\ InitRun
    /\ InitStat
    /\ InitPanel
    /\ InitLookup

\* DBManager.find_most_prolific_author and the to_list of its cursor
find_most_prolific_author ==
    /\ \E sorted \in SortDescending(AuthorGroups(store), "num_books") :
           /\ ranking' = sorted
           /\ cursor' = LimitStage(SkipStage(sorted, 1), 1)
    /\ query' = "find_most_prolific_author"
    /\ UNCHANGED <<store, chunk_size, api_count, runs, args, pc, exit_code,
                   session, total_pages, task_list, task_pc, task_content,
                   task_outcome, verify_resp, requests, insert_calls, log,
                   page_calls, prev, panelVars, lookupVars>>

\* DBManager.find_most_prolific_narrator and the to_list of its cursor
find_most_prolific_narrator ==
    /\ \E sorted \in SortDescending(NarratorGroups(store), "books_narrated") :
           /\ ranking' = sorted
           /\ cursor' = LimitStage(SkipStage(sorted, 1), 1)
    /\ query' = "find_most_prolific_narrator"
    /\ UNCHANGED <<store, chunk_size, api_count, runs, args, pc, exit_code,
                   session, total_pages, task_list, task_pc, task_content,
                   task_outcome, verify_resp, requests, insert_calls, log,
                   page_calls, prev, panelVars, lookupVars>>

NextStats ==
    \/ find_most_prolific_author
    \/ find_most_prolific_narrator

SpecStats == InitStats /\ [][NextStats]_vars

\* ------------------------------------------------------ average queries
\* a document with the fields the average pipelines read
RatedDoc(author, rating, reviews) ==
    [id |-> 0, main_author |-> author, main_actor |-> NoPerson,
     global_rating |-> rating, reviews_count |-> reviews]

\* n documents of one author: the first k rated 5 with 1 review, the others
\* rated 1 with 4 reviews
GroupDocs(author, n, k) ==
    [i \in 1..n |-> IF i <= k THEN RatedDoc(author, 5, 1)
                             ELSE RatedDoc(author, 1, 4)]

GroupShapes(most) == {t \in (0..most) \X (0..most) : t[2] <= t[1]}

\* two authors with up to MaxGroup documents and a third with at most one
AvgStores ==
    {GroupDocs(Authors[1], a[1], a[2]) \o GroupDocs(Authors[2], b[1], b[2])
         \o GroupDocs(Authors[3], c[1], c[2]) :
        a \in GroupShapes(MaxGroup), b \in GroupShapes(MaxGroup),
        c \in GroupShapes(1)}

\* {'$sum': field} over the documents m of s
RECURSIVE SumOver(_, _, _)
SumOver(s, field, m) ==
    IF m = {} THEN 0
    ELSE LET k == CHOOSE l \in m : TRUE
         IN  s[k][field] + SumOver(s, field, m \ {k})

\* {'$avg': field} over the documents m of s, as the fraction <<sum, number>>
AvgOver(s, field, m) == <<SumOver(s, field, m), Cardinality(m)>>

\* the $group stage of find_highest_AVG_rated_author, lines 209-216
AvgRatingGroups(s) ==
    {[_id |-> name,
      sum_books |-> Cardinality(Members(s, "main_author", name)),
      avg_rating |-> AvgOver(s, "global_rating", Members(s, "main_author", name)),
      uri |-> FirstOf(s, "main_author", name).uri] :
        name \in {s[k].main_author.cover_name : k \in DOMAIN s}}

\* the $group stage of find_highest_AVG_reviewed_author, lines 228-235
AvgReviewsGroups(s) ==
    {[_id |-> name,
      sum_books |-> Cardinality(Members(s, "main_author", name)),
      avg_reviews |-> AvgOver(s, "reviews_count", Members(s, "main_author", name)),
      uri |-> FirstOf(s, "main_author", name).uri] :
        name \in {s[k].main_author.cover_name : k \in DOMAIN s}}

\* a pipeline without the $match stage
MatchStage_none(groups, field, n) == groups

\* {'$match': {field: {'$gte': n}}}
MatchStage(groups, field, n) == {g \in groups : g[field] >= n}

\* x >= y for the fractions x and y
FractionGeq(x, y) == x[1] * y[2] >= y[1] * x[2]

\* {'$sort': (field, -1)} on an average: every descending order of the
\* groups; groups with equal averages come in any order
SortDescendingAvg(groups, field) ==
    {f \in [1..Cardinality(groups) -> groups] :
        /\ \A i, j \in DOMAIN f : i # j => f[i] # f[j]
        /\ \A i, j \in DOMAIN f : i < j => FractionGeq(f[i][field], f[j][field])}

InitAverages ==
    /\ store \in AvgStores
    /\ chunk_size = ProductionChunk
    /\ api_count = 0
    /\ runs = 0
    /\ page_calls = <<>>
    /\ prev = NoRun
    /\ InitRun
    /\ InitStat
    /\ InitPanel
    /\ InitLookup

\* DBManager.find_highest_AVG_rated_author and the to_list of its cursor
find_highest_AVG_rated_author ==
    /\ \E sorted \in SortDescendingAvg(
               MatchStage(AvgRatingGroups(store), "sum_books", MinBooks),
               "avg_rating") :
           /\ ranking' = sorted
           /\ cursor' = LimitStage(sorted, 1)
    /\ query' = "find_highest_AVG_rated_author"
    /\ UNCHANGED <<store, chunk_size, api_count, runs, args, pc, exit_code,
                   session, total_pages, task_list, task_pc, task_content,
                   task_outcome, verify_resp, requests, insert_calls, log,
                   page_calls, prev, panelVars, lookupVars>>

\* DBManager.find_highest_AVG_reviewed_author and the to_list of its cursor
find_highest_AVG_reviewed_author ==
    /\ \E sorted \in SortDescendingAvg(
               MatchStage(AvgReviewsGroups(store), "sum_books", MinBooks),
               "avg_reviews") :
           /\ ranking' = sorted
           /\ cursor' = LimitStage(sorted, 1)
    /\ query' = "find_highest_AVG_reviewed_author"
    /\ UNCHANGED <<store, chunk_size, api_count, runs, args, pc, exit_code,
                   session, total_pages, task_list, task_pc, task_content,
                   task_outcome, verify_resp, requests, insert_calls, log,
                   page_calls, prev, panelVars, lookupVars>>

NextAverages ==
    \/ find_highest_AVG_rated_author
    \/ find_highest_AVG_reviewed_author

SpecAverages == InitAverages /\ [][NextAverages]_vars

\* -------------------------------------------------------- statistics panel
\* DBManager.panel_numeric_queries and DBManager.panel_coroutine_queries
panel_numeric_queries == <<"find_books_total">>

panel_coroutine_queries ==
    <<"find_highest_rated_book", "find_most_reviewed_book",
      "find_most_prolific_author", "find_most_prolific_narrator",
      "find_highest_AVG_rated_author", "find_highest_AVG_reviewed_author">>

\* PanelCreator.render_methods
render_methods ==
    <<"_get_total_books", "_get_max_rating_book", "_get_most_reviewed_book",
      "_get_most_prolific_author", "_get_most_prolific_narrator",
      "_get_highest_AVG_rated_author", "_get_highest_AVG_reviewed_author">>

\* the attributes of a PanelQueryHandler object
PanelQueryHandlerAttrs ==
    {"db_manager", "results", "await_all_queries", "_await_numeric_query",
     "_await_all_numeric_queries", "_await_coroutine_query",
     "_await_all_coroutine_queries"}

\* find(...).sort(field, DESCENDING).limit(1) and to_list(1): a document with
\* the largest value of field, none for an empty collection
TopDocument(s, field) ==
    IF s = <<>> THEN {<<>>}
    ELSE {<<s[k]>> : k \in {l \in DOMAIN s :
                               \A m \in DOMAIN s : s[l][field] >= s[m][field]}}

\* the lists to_list(length=1) can return for the cursor of a query
QueryCursors(name, s) ==
    CASE name = "find_highest_rated_book" -> TopDocument(s, "global_rating")
      [] name = "find_most_reviewed_book" -> TopDocument(s, "reviews_count")
      [] name = "find_most_prolific_author" ->
             {LimitStage(SkipStage(sorted, 1), 1) :
                 sorted \in SortDescending(AuthorGroups(s), "num_books")}
      [] name = "find_most_prolific_narrator" ->
             {LimitStage(SkipStage(sorted, 1), 1) :
                 sorted \in SortDescending(NarratorGroups(s), "books_narrated")}
      [] name = "find_highest_AVG_rated_author" ->
             {LimitStage(sorted, 1) :
                 sorted \in SortDescendingAvg(
                     MatchStage(AvgRatingGroups(s), "sum_books", MinBooks),
                     "avg_rating")}
      [] name = "find_highest_AVG_reviewed_author" ->
             {LimitStage(sorted, 1) :
                 sorted \in SortDescendingAvg(
                     MatchStage(AvgReviewsGroups(s), "sum_books", MinBooks),
                     "avg_reviews")}

\* an entry of PanelQueryHandler.results and the query it came from
ResultOf(name, data) == [query |-> name, data |-> data]

\* the position of name in the sequence seq, 0 when it is not there
IndexOf(seq, name) ==
    IF \E i \in DOMAIN seq : seq[i] = name
    THEN CHOOSE i \in DOMAIN seq : seq[i] = name
    ELSE 0

InitPanels ==
    /\ store \in StatStores
    /\ chunk_size = ProductionChunk
    /\ api_count = 0
    /\ runs = 0
    /\ page_calls = <<>>
    /\ prev = NoRun
    /\ InitRun
    /\ InitStat
    /\ InitPanel
    /\ InitLookup

\* python -m zvukiStats --stats, main lines 59-61: PanelQueryHandler(db_manager)
\* and the call of await_all_queries
Stats ==
    /\ pc = "idle"
    /\ args' = "stats"
    /\ pc' = "main"
    /\ runs' = runs + 1
    /\ results' = <<>>
    /\ panel_pc' = "numeric"
    /\ UNCHANGED <<store, chunk_size, api_count, exit_code, session,
                   total_pages, task_list, task_pc, task_content, task_outcome,
                   verify_resp, requests, insert_calls, log, page_calls, prev,
                   statVars, lookupVars>>

\* _await_all_numeric_queries, lines 46-49, with _await_numeric_query and
\* find_books_total: the number of documents is appended to results
await_all_numeric_queries ==
    /\ panel_pc = "numeric"
    /\ results' = results \o
           [i \in DOMAIN panel_numeric_queries |->
               ResultOf(panel_numeric_queries[i], <<Len(store)>>)]
    /\ panel_pc' = "coroutine"
    /\ UNCHANGED <<store, chunk_size, api_count, runs, args, pc, exit_code,
                   session, total_pages, task_list, task_pc, task_content,
                   task_outcome, verify_resp, requests, insert_calls, log,
                   page_calls, prev, statVars, lookupVars>>

\* one turn of the loop of _await_all_coroutine_queries, lines 64-65: the
\* attribute await_coroutine_query is looked up on the handler and called;
\* the lookup of a missing attribute raises AttributeError, which nothing
\* catches, so the process ends with a traceback and exit code 1
await_all_coroutine_queries ==
    /\ panel_pc = "coroutine"
    /\ LET name == panel_coroutine_queries[
                       IndexOf(panel_coroutine_queries, query) + 1]
       IN  IF "await_coroutine_query" \in PanelQueryHandlerAttrs
           THEN /\ \E data \in QueryCursors(name, store) :
                       /\ cursor' = data
                       /\ results' = results \o
                              [i \in DOMAIN data |-> ResultOf(name, data[i])]
                /\ query' = name
                /\ panel_pc' =
                       IF name = panel_coroutine_queries[Len(panel_coroutine_queries)]
                       THEN "done" ELSE "coroutine"
                /\ UNCHANGED <<pc, exit_code, ranking>>
           ELSE /\ panel_pc' = "AttributeError"
                /\ pc' = "exited"
                /\ exit_code' = 1
                /\ UNCHANGED <<results, statVars>>
    /\ UNCHANGED <<store, chunk_size, api_count, runs, args, session,
                   total_pages, task_list, task_pc, task_content, task_outcome,
                   verify_resp, requests, insert_calls, log, page_calls, prev,
                   lookupVars>>

NextPanels ==
    \/ Stats
    \/ await_all_numeric_queries
    \/ await_all_coroutine_queries

SpecPanels == InitPanels /\ [][NextPanels]_vars

\* ------------------------------------------------------------------ lookup
\* Strings are modelled as the sequence of their words: " ".join(args) is the
\* sequence args, and a name in the store is the sequence of its words.
\* The words of the queries and of the names consist of letters, and no word
\* is part of another one.

\* __main__.INSTANCE_DB_MAPPING
INSTANCE_DB_MAPPING == [author |-> "main_author.cover_name", book |-> "name"]

\* the pattern "[а-яa-z]* ?" of an optional patronymic
Fragment == "[a-z]* ?"

\* {'$options': 'i'}: letters are compared without their case
Lower(w) ==
    CASE w = "Lev" -> "lev"
      [] w = "Tolstoy" -> "tolstoy"
      [] w = "Anna" -> "anna"
      [] w = "Junior" -> "junior"
      [] OTHER -> w

\* a document with the fields the lookup reads
LookupDoc(name, author, reviews) ==
    [name |-> name, main_author |-> [cover_name |-> author],
     main_actor |-> [cover_name |-> "Narrator"], reviews_count |-> reviews,
     uri |-> "uri"]

LookupPool ==
    <<LookupDoc(<<"Anna">>, <<"Lev", "Tolstoy">>, 2),
      LookupDoc(<<"anna", "tolstoy", "lev">>, <<"Lev", "Anna", "Tolstoy">>, 1),
      LookupDoc(<<"Junior", "Anna", "Tolstoy", "Lev">>,
                <<"Lev", "Tolstoy", "Junior">>, 2)>>

\* the stores of at most MaxBooks documents of the pool; the lookup sorts
\* what it finds, so one order of the documents stands for all
LookupStores ==
    {[k \in 1..Cardinality(S) |->
         LookupPool[CHOOSE i \in S : Cardinality({j \in S : j < i}) = k - 1]] :
        S \in {R \in SUBSET DOMAIN LookupPool : Cardinality(R) <= MaxBooks}}

\* the words a query is made of
QueryWords == {"lev", "Tolstoy", "anna"}

\* the values of --author and --book: nargs="+" gives at least one word
Queries ==
    UNION {[1..n -> QueryWords] : n \in 1..MaxWords}
        \cup {[i \in 1..(MaxQueryWords + 1) |-> "anna"]}

\* the value of the field `instance` of a document, <<>> for a field the
\* documents do not have
FieldOf(doc, field) ==
    CASE field = "name" -> doc.name
      [] field = "main_author.cover_name" -> doc.main_author.cover_name
      [] OTHER -> <<>>

\* {'$regex': pattern, '$options': 'i'}: the pattern is found somewhere in
\* the value. A word of the pattern matches the same word of the value; the
\* fragment stands between two spaces of the pattern or at one of its ends
\* next to a space, so it needs a word of the value at its place
Matches(pattern, value) ==
    \E o \in 0..Len(value) :
        \A i \in DOMAIN pattern :
            /\ o + i <= Len(value)
            /\ \/ pattern[i] = Fragment
               \/ Lower(pattern[i]) = Lower(value[o + i])

\* DBManager.count_docs
count_docs(s, field, pattern) ==
    Cardinality({k \in DOMAIN s : Matches(pattern, FieldOf(s[k], field))})

\* DBManager.find_instance_stats and to_list(length): the matching documents
\* by reviews_count descending, documents with equal counts in any order,
\* cut to length and projected
find_instance_stats(s, field, pattern, length) ==
    LET found == {k \in DOMAIN s : Matches(pattern, FieldOf(s[k], field))}
        orders == {f \in [1..Cardinality(found) -> found] :
                      /\ \A i, j \in DOMAIN f : i # j => f[i] # f[j]
                      /\ \A i, j \in DOMAIN f :
                             i < j => s[f[i]].reviews_count >= s[f[j]].reviews_count}
    IN  {[i \in 1..Min(length, Cardinality(found)) |->
             [name |-> s[f[i]].name, uri |-> s[f[i]].uri,
              main_actor |-> s[f[i]].main_actor,
              reviews_count |-> s[f[i]].reviews_count]] : f \in orders}

RECURSIVE Factorial(_)
Factorial(n) == IF n <= 0 THEN 1 ELSE n * Factorial(n - 1)

\* the number of tuples of itertools.permutations for n elements and length r
NumPermutations(n, r) ==
    IF r > n THEN 0 ELSE Factorial(n) \div Factorial(n - r)

\* the tuple number k, counted from 0, of itertools.permutations(pool, r):
\* the tuples come in the lexicographic order of the positions in pool
RECURSIVE NthPermutation(_, _, _)
NthPermutation(pool, r, k) ==
    IF r = 0 THEN <<>>
    ELSE LET block == NumPermutations(Len(pool) - 1, r - 1)
             i == (k \div block) + 1
             rest == [j \in 1..(Len(pool) - 1) |->
                         IF j < i THEN pool[j] ELSE pool[j + 1]]
         IN  <<pool[i]>> \o NthPermutation(rest, r - 1, k % block)

\* an enumeration from the last tuple to the first
permutations_reversed(a, r, k) ==
    NthPermutation(a, r, NumPermutations(Len(a), r) - k)

\* the k-th tuple the loop over itertools.permutations(args, len_args) takes
permutations(a, r, k) == NthPermutation(a, r, k - 1)

\* a loop that gives up after the first tuple
LastCombination_first(a, r) == 1

\* the number of turns of the loop at most
LastCombination(a, r) == NumPermutations(Len(a), r)

\* a check that lets every query pass
TooLong_never(n) == FALSE

\* `if len_args > 9`
TooLong(n) == n > MaxQueryWords

InitLookups ==
    /\ store \in LookupStores
    /\ chunk_size = ProductionChunk
    /\ api_count = 0
    /\ runs = 0
    /\ page_calls = <<>>
    /\ prev = NoRun
    /\ InitRun
    /\ InitStat
    /\ InitPanel
    /\ InitLookup

\* python -m zvukiStats --author | --book, main lines 70-74, and
\* get_instance_queryset up to its loop, lines 48-59: sys.exit with a message
\* raises SystemExit, which nothing catches: the message is printed and the
\* process ends with exit code 1
get_instance_queryset(mode, instance_args) ==
    /\ pc = "idle"
    /\ args' = mode
    /\ runs' = runs + 1
    /\ instance' = INSTANCE_DB_MAPPING[mode]
    /\ query_string' = instance_args
    /\ len_args' = Len(instance_args)
    /\ IF TooLong(Len(instance_args))
       THEN /\ log' = Append(log, ConsoleLine("query too long"))
            /\ pc' = "exited"
            /\ exit_code' = 1
            /\ UNCHANGED <<words, combo>>
       ELSE /\ words' = IF INSTANCE_DB_MAPPING[mode] = "author"
                            /\ Len(instance_args) = 2
                        THEN Append(instance_args, Fragment)
                        ELSE instance_args
            /\ combo' = 1
            /\ pc' = "lookup"
            /\ UNCHANGED <<log, exit_code>>
    /\ UNCHANGED <<store, chunk_size, api_count, session, total_pages,
                   task_list, task_pc, task_content, task_outcome, verify_resp,
                   requests, insert_calls, page_calls, prev, statVars,
                   panelVars, probes, searches, lookup_result, table>>

\* one turn of the loop, lines 60-68: count_docs with the next tuple and,
\* for a count above 0, find_instance_stats with the same tuple and return
Probe ==
    /\ pc = "lookup"
    /\ combo <= LastCombination(words, len_args)
    /\ LET name_combination == permutations(words, len_args, combo)
           num_docs == count_docs(store, instance, name_combination)
       IN  /\ probes' = Append(probes, [pattern |-> name_combination,
                                        num_docs |-> num_docs])
           /\ IF num_docs > 0
              THEN /\ searches' = Append(searches, name_combination)
                   /\ lookup_result' = [kind |-> "queryset",
                                        pattern |-> name_combination,
                                        header |-> query_string]
                   /\ pc' = "table"
                   /\ UNCHANGED combo
              ELSE /\ combo' = combo + 1
                   /\ UNCHANGED <<searches, lookup_result, pc>>
    /\ UNCHANGED <<store, chunk_size, api_count, runs, args, exit_code,
                   session, total_pages, task_list, task_pc, task_content,
                   task_outcome, verify_resp, requests, insert_calls, log,
                   page_calls, prev, statVars, panelVars, words, instance,
                   query_string, len_args, table>>

\* line 69: the loop is over, the message of the empty result is returned
ReturnEmpty ==
    /\ pc = "lookup"
    /\ combo > LastCombination(words, len_args)
    /\ lookup_result' = [kind |-> "empty", pattern |-> <<>>,
                         header |-> query_string]
    /\ pc' = "table"
    /\ UNCHANGED <<store, chunk_size, api_count, runs, args, exit_code,
                   session, total_pages, task_list, task_pc, task_content,
                   task_outcome, verify_resp, requests, insert_calls, log,
                   page_calls, prev, statVars, panelVars, words, instance,
                   query_string, len_args, combo, probes, searches, table>>

\* create_rich_table, lines 131-142, and main line 76: a message and
\* sys.exit() for the empty result, otherwise the first ten rows of the
\* cursor are printed as a table
create_rich_table ==
    /\ pc = "table"
    /\ IF lookup_result.kind = "empty"
       THEN /\ log' = Append(log, ConsoleLine("nothing found"))
            /\ pc' = "exited"
            /\ exit_code' = 0
            /\ UNCHANGED table
       ELSE /\ \E rows \in find_instance_stats(store, instance,
                                               lookup_result.pattern, 10) :
                   table' = rows
            /\ log' = Append(log, ConsoleLine("table"))
            /\ pc' = "finished"
            /\ exit_code' = 0
    /\ UNCHANGED <<store, chunk_size, api_count, runs, args, session,
                   total_pages, task_list, task_pc, task_content, task_outcome,
                   verify_resp, requests, insert_calls, page_calls, prev,
                   statVars, panelVars, words, instance, query_string,
                   len_args, combo, probes, searches, lookup_result>>

NextLookups ==
    \/ \E mode \in {"author", "book"}, instance_args \in Queries :
           get_instance_queryset(mode, instance_args)
    \/ Probe
    \/ ReturnEmpty
    \/ create_rich_table

SpecLookups == InitLookups /\ [][NextLookups]_vars

\* ------------------------------------------------- properties of the load
Range(s) == {s[k] : k \in DOMAIN s}

FailureKinds == {"InvalidURL", "ClientError", "Exception"}

\* the documents of the page of task i
TaskPage(i) == PageResults(task_list[i], chunk_size, api_count)

\* the requests of the page tasks for page index p
PageRequests(p) ==
    {k \in DOMAIN requests : requests[k][3] = "page" /\ requests[k][2] = p}

TasksCreated == args = "load" /\ pc \in {"gather", "finished"}

\* the ids of the documents in the store
StoredIds == {store[k].id : k \in DOMAIN store}

\* the ids of the catalog items of the page of task i
PageIds(i) ==
    {(task_list[i] - 1) * chunk_size + k :
        k \in 1..Max(0, Min(chunk_size,
                            api_count - (task_list[i] - 1) * chunk_size))}

\* C1: a load started on a non-empty collection is refused: the process exits
\* with code 1 in its next step without a request, a task, an insert_docs call
\* or a change of the store, and nothing happens in the process afterwards.
C1_NonEmptyRefused ==
    [][ /\ (pc = "main" /\ args = "load" /\ Len(store) > 0)
            => /\ pc' = "exited"
               /\ exit_code' = 1
               /\ requests' = <<>> /\ task_list' = <<>> /\ insert_calls' = 0
               /\ session' = "none"
               /\ store' = store
        /\ (pc = "exited" /\ pc' = "exited") => UNCHANGED vars ]_vars

C1_Witness ==
    /\ pc = "exited" /\ args = "load" /\ exit_code = 1
    /\ Len(store) > 0 /\ requests = <<>> /\ insert_calls = 0

\* C2: when the verification request fails or its answer has no count, the
\* process has exited with code 1, no page task exists, the verification
\* request is the only request sent and nothing was inserted.
C2_VerificationFatal ==
    (verify_resp.kind # "none" /\ ~(verify_resp.kind = "ok" /\ verify_resp.has_count))
        => /\ pc = "exited"
           /\ exit_code = 1
           /\ task_list = <<>>
           /\ requests = << <<1, 1, "verification">> >>
           /\ insert_calls = 0
           /\ store = <<>>

C2_Witness ==
    /\ verify_resp.kind = "ok" /\ ~verify_resp.has_count
    /\ pc = "exited" /\ exit_code = 1 /\ runs > 1

\* C3: a page task that failed with any of the three kinds is resolved, left
\* none of its documents in the store and did not end the process; every
\* other task can still take its next step, and when the run has finished it
\* finished with exit code 0 and every task that inserted has its page stored.
C3_FailureIsolated ==
    args = "load" =>
        \A i \in DOMAIN task_list :
            task_outcome[i] \in FailureKinds =>
                /\ task_pc[i] = "done"
                /\ PageIds(i) \cap StoredIds = {}
                /\ pc \in {"gather", "finished"}
                /\ exit_code # 1
                /\ pc = "finished" => exit_code = 0
                /\ \A j \in DOMAIN task_list \ {i} :
                       /\ task_pc[j] = "get" => ENABLED TaskResponse(j, "results")
                       /\ task_pc[j] = "insert" => ENABLED TaskInsert(j, TRUE)
                       /\ task_outcome[j] = "inserted" =>
                              PageIds(j) \subseteq StoredIds
                /\ (\A j \in DOMAIN task_list : task_pc[j] = "done")
                       => (pc = "finished" \/ ENABLED GatherReturn)

C3_Witness ==
    /\ pc = "finished" /\ args = "load" /\ exit_code = 0
    /\ \E i, j, k \in DOMAIN task_list :
           /\ task_outcome[i] = "ClientError"
           /\ task_outcome[j] = "Exception"
           /\ task_outcome[k] = "inserted"
           /\ i < k

\* C4: when a load has finished, the store holds exactly the documents of the
\* pages whose task inserted, each once, whatever the order of the inserts.
C4_Union ==
    (pc = "finished" /\ args = "load") =>
        LET inserted == {i \in DOMAIN task_list : task_outcome[i] = "inserted"}
        IN  /\ StoredIds = UNION {PageIds(i) : i \in inserted}
            /\ \A k \in DOMAIN store : store[k] = CatalogItem(store[k].id)
            /\ Cardinality(StoredIds) = Len(store)

C4_Witness ==
    /\ pc = "finished" /\ args = "load"
    /\ \E i, j \in DOMAIN task_list :
           /\ i < j
           /\ task_outcome[i] = "inserted" /\ task_outcome[j] = "inserted"
           /\ store[1] \in Range(TaskPage(j))
    /\ \E i \in DOMAIN task_list : task_outcome[i] \in FailureKinds

\* C5: the load is reported finished, and the session is closed, only when
\* every created task has resolved by an insert or by an absorbed failure.
C5_Completion ==
    args = "load" =>
        ((pc = "finished" \/ session = "closed"
            \/ ConsoleLine("load time") \in Range(log))
         => \A i \in DOMAIN task_list :
                /\ task_pc[i] = "done"
                /\ task_outcome[i] \in FailureKinds \cup {"inserted"})

C5_Witness ==
    /\ pc = "finished" /\ args = "load" /\ session = "closed"
    /\ Len(task_list) >= 2
    /\ \E i \in DOMAIN task_list : task_outcome[i] = "inserted"
    /\ \E i \in DOMAIN task_list : task_outcome[i] \in FailureKinds

\* C6: the created tasks, chunk_size items each, cover the count items of the
\* catalog.
C6_TasksCoverCount ==
    (TasksCreated /\ verify_resp.count > 0)
        => Len(task_list) * chunk_size >= verify_resp.count

\* C7: after the verification the task list holds exactly one task for each
\* page index of 1..total_pages-1, in the whole run each page index is
\* requested at most once and only by the task of that page, and a failed
\* task sends nothing more.
C7_TaskSet ==
    TasksCreated =>
        /\ Len(task_list) = total_pages - 1
        /\ \A p \in 1..(total_pages - 1) :
               Cardinality({i \in DOMAIN task_list : task_list[i] = p}) = 1
        /\ \A i \in DOMAIN task_list : task_list[i] \in 1..(total_pages - 1)
        /\ \A k \in DOMAIN requests :
               requests[k][3] = "page" =>
                   /\ requests[k][2] \in Range(task_list)
                   /\ requests[k][1] = chunk_size
                   /\ Cardinality(PageRequests(requests[k][2])) = 1
        /\ Len(requests) <= Len(task_list) + 1

C7_Witness ==
    /\ pc = "finished" /\ args = "load"
    /\ Len(task_list) = MaxTasks
    /\ \E i \in DOMAIN task_list :
           task_outcome[i] = "ClientError" /\ Cardinality(PageRequests(task_list[i])) = 1
    /\ \E i \in DOMAIN task_list :
           task_outcome[i] = "InvalidURL" /\ PageRequests(task_list[i]) = {}

\* C8: for count = 2500 and page size 1000 get_total_pages returns 3 and the
\* task list is the two tasks of the pages 1 and 2.
C8_Scenario ==
    (TasksCreated /\ chunk_size = 1000 /\ verify_resp.count = 2500)
        => /\ total_pages = 3
           /\ task_list = <<1, 2>>

C8_Witness ==
    /\ pc = "gather" /\ chunk_size = 1000 /\ verify_resp.count = 2500
    /\ Len(task_list) = 2 /\ Len(store) = 2000

\* C17: when the drop_collection operation has finished the collection holds
\* no document, whatever it held before, is_empty_collection is true, and the
\* name of the collection was returned and reported.
C17_DropAll ==
    (args = "drop_collection" /\ pc = "finished")
        => /\ store = <<>>
           /\ Len(store) = 0
           /\ is_empty_collection(store)
           /\ log = <<ConsoleLine("test_database.test_collection")>>
           /\ exit_code = 0

C17_Witness ==
    /\ args = "drop_collection" /\ pc = "finished"
    /\ prev.args = "load" /\ prev.docs > 1
    /\ store = <<>>

\* C18: a load started on a store that holds documents is refused without a
\* request or a write, a load started after a drop_collection is not refused,
\* and the store never holds documents of two loads: it holds each document
\* once, and a load that got as far as its tasks started on an empty store.
C18_LoadDropSequencing ==
    /\ (args = "load" /\ pc # "main" /\ prev.docs > 0)
           => /\ pc = "exited" /\ exit_code = 1
              /\ Len(store) = prev.docs
              /\ requests = <<>> /\ insert_calls = 0
    /\ (args = "load" /\ pc # "main" /\ prev.args = "drop_collection")
           => /\ prev.docs = 0
              /\ requests # <<>>
              /\ requests[1] = <<1, 1, "verification">>
              /\ ConsoleLine("NON_EMPTY_COL_ERROR_MSG") \notin Range(log)
    /\ Cardinality({store[k].id : k \in DOMAIN store}) = Len(store)
    /\ TasksCreated => prev.docs = 0

C18_Witness ==
    /\ args = "load" /\ pc = "finished" /\ runs = 3
    /\ prev.args = "drop_collection"
    /\ Len(store) > 1

\* C19: a task whose page was fetched but whose insert failed, by a missing
\* `results` field or by a rejected insert_many, is resolved with the error
\* logged, is not reported as processed, left nothing in the store and did not
\* end the process; the other tasks still take their steps and keep their
\* pages, and the run finishes with exit code 0.
C19_InsertFailureAbsorbed ==
    args = "load" =>
        \A i \in DOMAIN task_list :
            /\ (task_content[i].fetched /\ ~task_content[i].present
                    /\ task_pc[i] # "insert")
                   => task_outcome[i] = "Exception"
            /\ (task_content[i].fetched /\ task_pc[i] # "insert"
                    /\ task_outcome[i] # "inserted")
                   => /\ task_pc[i] = "done"
                      /\ task_outcome[i] = "Exception"
                      /\ ErrorLine("Exception", task_list[i]) \in Range(log)
                      /\ InfoLine("processed", task_list[i]) \notin Range(log)
                      /\ PageIds(i) \cap StoredIds = {}
                      /\ pc \in {"gather", "finished"}
                      /\ exit_code # 1
                      /\ pc = "finished" => exit_code = 0
                      /\ \A j \in DOMAIN task_list \ {i} :
                             /\ task_pc[j] = "insert" => pc = "gather"
                             /\ task_outcome[j] = "inserted" =>
                                    /\ PageIds(j) \subseteq StoredIds
                                    /\ InfoLine("processed", task_list[j]) \in Range(log)

C19_Witness ==
    /\ pc = "finished" /\ args = "load" /\ exit_code = 0
    /\ \E i, j, k \in DOMAIN task_list :
           /\ task_content[i].fetched /\ task_content[i].present
           /\ task_content[i].docs # <<>> /\ task_outcome[i] = "Exception"
           /\ task_content[j].fetched /\ ~task_content[j].present
           /\ task_outcome[j] = "Exception"
           /\ task_outcome[k] = "inserted" /\ i < k

\* C9: every evaluation of get_total_pages on a positive count and a positive
\* page size gives a page count of at least 1, and repeated evaluations on the
\* same count and page size give the same page count.
C9_PageMath ==
    \A k \in DOMAIN page_calls :
        /\ page_calls[k] >= 1
        /\ \A l \in DOMAIN page_calls : page_calls[l] = page_calls[k]

C9_Witness ==
    /\ Len(page_calls) = 2
    /\ page_calls[1] = 1
    /\ api_count > 1

\* ------------------------------------------- properties of the aggregation
\* the number of documents of the store whose key is name
NumDocs(field, name) ==
    Cardinality({k \in DOMAIN store : store[k][field].cover_name = name})

\* name is second by the number of its documents: one other key has at least
\* as many documents and every further key has at most as many
SecondRanked(field, name) ==
    LET names == {store[k][field].cover_name : k \in DOMAIN store}
    IN  /\ name \in names
        /\ \E first \in names \ {name} :
               /\ NumDocs(field, first) >= NumDocs(field, name)
               /\ \A other \in names \ {first, name} :
                      NumDocs(field, other) <= NumDocs(field, name)

\* C10: both most-prolific queries return the group that is second by item
\* count and not the group the sort put first; with fewer than two groups they
\* return no record.
C10_MostProlificSkip ==
    /\ query = "find_most_prolific_author" =>
           IF Cardinality({store[k].main_author.cover_name : k \in DOMAIN store}) < 2
           THEN cursor = <<>>
           ELSE /\ Len(cursor) = 1
                /\ SecondRanked("main_author", cursor[1]._id)
                /\ cursor[1].num_books = NumDocs("main_author", cursor[1]._id)
                /\ cursor[1]._id # ranking[1]._id
                /\ cursor[1] = ranking[2]
    /\ query = "find_most_prolific_narrator" =>
           IF Cardinality({store[k].main_actor.cover_name : k \in DOMAIN store}) < 2
           THEN cursor = <<>>
           ELSE /\ Len(cursor) = 1
                /\ SecondRanked("main_actor", cursor[1]._id)
                /\ cursor[1].books_narrated = NumDocs("main_actor", cursor[1]._id)
                /\ cursor[1]._id # ranking[1]._id
                /\ cursor[1] = ranking[2]

C10_Witness ==
    /\ query = "find_most_prolific_narrator"
    /\ Len(ranking) = 3
    /\ Len(cursor) = 1
    /\ cursor[1].books_narrated < ranking[1].books_narrated
    /\ cursor[1].books_narrated = ranking[3].books_narrated

\* ------------------------------------------ properties of the averages
\* the sum of field over the first n documents of the store whose author is
\* name
RECURSIVE TotalOf(_, _, _)
TotalOf(field, name, n) ==
    IF n = 0 THEN 0
    ELSE TotalOf(field, name, n - 1)
         + (IF store[n].main_author.cover_name = name THEN store[n][field] ELSE 0)

\* the average of field over the documents of author a is at least that of
\* author b
AverageGeq(field, a, b) ==
    TotalOf(field, a, Len(store)) * NumDocs("main_author", b)
        >= TotalOf(field, b, Len(store)) * NumDocs("main_author", a)

\* the authors with at least five documents in the store
Eligible ==
    {name \in {store[k].main_author.cover_name : k \in DOMAIN store} :
        NumDocs("main_author", name) >= 5}

\* C11: both average queries rank only the authors with at least five
\* documents: the record returned is an author with at least five documents
\* whose average is the highest among those authors, and no record is
\* returned when no author has five documents.
C11_AverageFloor ==
    /\ query = "find_highest_AVG_rated_author" =>
           IF Eligible = {}
           THEN cursor = <<>>
           ELSE /\ Len(cursor) = 1
                /\ cursor[1]._id \in Eligible
                /\ cursor[1].sum_books = NumDocs("main_author", cursor[1]._id)
                /\ cursor[1].avg_rating =
                       <<TotalOf("global_rating", cursor[1]._id, Len(store)),
                         NumDocs("main_author", cursor[1]._id)>>
                /\ \A other \in Eligible :
                       AverageGeq("global_rating", cursor[1]._id, other)
    /\ query = "find_highest_AVG_reviewed_author" =>
           IF Eligible = {}
           THEN cursor = <<>>
           ELSE /\ Len(cursor) = 1
                /\ cursor[1]._id \in Eligible
                /\ cursor[1].sum_books = NumDocs("main_author", cursor[1]._id)
                /\ cursor[1].avg_reviews =
                       <<TotalOf("reviews_count", cursor[1]._id, Len(store)),
                         NumDocs("main_author", cursor[1]._id)>>
                /\ \A other \in Eligible :
                       AverageGeq("reviews_count", cursor[1]._id, other)

\* C16: when await_all_queries is over it has completed, and results holds
\* one entry for each of the seven queries in the order of the render methods
\* of PanelCreator.
C16_StatisticsRecordSet ==
    (args = "stats" /\ panel_pc \notin {"numeric", "coroutine"}) =>
        /\ panel_pc = "done"
        /\ exit_code # 1
        /\ Len(results) = Len(render_methods)
        /\ \A i \in DOMAIN results :
               results[i].query = (panel_numeric_queries \o panel_coroutine_queries)[i]

C11_Witness ==
    /\ query = "find_highest_AVG_rated_author"
    /\ Len(cursor) = 1
    /\ Cardinality(Eligible) = 2
    /\ \E other \in Eligible :
           ~AverageGeq("global_rating", other, cursor[1]._id)
    /\ \E small \in {store[k].main_author.cover_name : k \in DOMAIN store} :
           /\ small \notin Eligible
           /\ ~AverageGeq("global_rating", cursor[1]._id, small)

\* ---------------------------------------------- properties of the lookup
\* the tuples of r different positions of a sequence of n elements
PositionTuples(n, r) ==
    {f \in [1..r -> 1..n] : \A i, j \in 1..r : i # j => f[i] # f[j]}

\* the number of permutations of the positions that come before f in the
\* lexicographic order and agree with f before position i
RECURSIVE LexRank(_, _)
LexRank(f, i) ==
    IF i > Len(f) THEN 0
    ELSE Cardinality({j \in 1..Len(f) :
                         j < f[i] /\ \A h \in 1..(i - 1) : f[h] # j})
             * Factorial(Len(f) - i)
         + LexRank(f, i + 1)

\* the k-th permutation of a in the lexicographic order of the positions
TupleAt(a, k) ==
    LET f == CHOOSE g \in PositionTuples(Len(a), Len(a)) : LexRank(g, 1) = k - 1
    IN  [i \in DOMAIN a |-> a[f[i]]]

LookupOver == pc \in {"table", "finished", "exited"}

\* C12, as stated: a query of more than nine words is reported as a message,
\* yields no results, sends no count or search query, and does not end the
\* process with an exception: the lookup hands the message to its caller.
C12_OverLongReported ==
    (args \in {"author", "book"} /\ Len(query_string) > 9) =>
        /\ ConsoleLine("query too long") \in Range(log)
        /\ table = <<>>
        /\ probes = <<>> /\ searches = <<>>
        /\ exit_code # 1
        /\ LookupOver => lookup_result.kind # "none"

\* C12, amended: a query of more than nine words ends the process inside the
\* lookup: the message is printed, the exit code is 1, nothing is returned to
\* the caller, no table is built and no count or search query is sent.
C12_OverLongExits ==
    (args \in {"author", "book"} /\ Len(query_string) > 9) =>
        /\ ConsoleLine("query too long") \in Range(log)
        /\ table = <<>>
        /\ probes = <<>> /\ searches = <<>>
        /\ pc = "exited" /\ exit_code = 1
        /\ lookup_result = NoResult

C12_Witness ==
    /\ args = "book" /\ Len(query_string) = 10
    /\ pc = "exited"
    /\ count_docs(store, "name", <<query_string[1]>>) > 0

\* C13: the latest count_docs call of a lookup, the k-th, carries the k-th
\* permutation of the query words (every call is the latest one when it is
\* made), the first one the words in their order; every call but the last
\* found nothing; a call that found a document is the last one and
\* is followed by one find_instance_stats call with the same words, whose
\* documents are the rows of the table.
C13_LookupFirstMatch ==
    /\ probes # <<>> =>
           probes[Len(probes)].pattern = TupleAt(query_string, Len(probes))
    /\ \A k \in DOMAIN probes :
           /\ probes[k].num_docs = count_docs(store, instance, probes[k].pattern)
           /\ k < Len(probes) => probes[k].num_docs = 0
    /\ probes # <<>> => probes[1].pattern = query_string
    /\ (probes # <<>> /\ probes[Len(probes)].num_docs > 0) =>
           /\ searches = <<probes[Len(probes)].pattern>>
           /\ lookup_result.kind = "queryset"
           /\ lookup_result.pattern = probes[Len(probes)].pattern
           /\ pc # "lookup"
    /\ searches # <<>> => (probes # <<>> /\ probes[Len(probes)].num_docs > 0)
    /\ table # <<>> =>
           table \in find_instance_stats(store, instance, searches[1], 10)

C13_Witness ==
    /\ pc = "finished"
    /\ Len(query_string) = 3
    /\ Len(probes) \in 3..5
    /\ searches # <<>>
    /\ Len(table) = 2

\* C14: for an author query of two words that has no match in the given
\* order while the reversed words followed by the patronymic fragment have
\* one, the lookup probes the reversed words with the fragment and returns
\* the search for them.
C14_PatronymicFallback ==
    (/\ args = "author" /\ Len(query_string) = 2 /\ LookupOver
     /\ count_docs(store, "main_author.cover_name", query_string) = 0
     /\ count_docs(store, "main_author.cover_name",
                   <<query_string[2], query_string[1], Fragment>>) > 0)
        => /\ lookup_result.kind = "queryset"
           /\ lookup_result.pattern =
                  <<query_string[2], query_string[1], Fragment>>
           /\ \E k \in DOMAIN probes :
                  probes[k].pattern =
                      <<query_string[2], query_string[1], Fragment>>

\* C15: when the lookup returns the message of the empty result, every
\* permutation of the query words was probed with count_docs and found
\* nothing, find_instance_stats was not called, and the message goes with the
\* query words in their order, without the fragment.
C15_LookupMiss ==
    lookup_result.kind = "empty" =>
        /\ Len(probes) = Factorial(Len(query_string))
        /\ \A f \in PositionTuples(Len(query_string), Len(query_string)) :
               \E k \in DOMAIN probes :
                   probes[k].pattern = [i \in DOMAIN query_string |-> query_string[f[i]]]
        /\ \A k \in DOMAIN probes :
               /\ probes[k].num_docs = 0
               /\ count_docs(store, instance, probes[k].pattern) = 0
        /\ lookup_result.header = query_string
        /\ Fragment \notin Range(lookup_result.header)
        /\ searches = <<>> /\ table = <<>>
        /\ pc = "exited" =>
               /\ exit_code = 0
               /\ ConsoleLine("nothing found") \in Range(log)

C15_Witness ==
    /\ lookup_result.kind = "empty" /\ pc = "exited"
    /\ Len(query_string) = 3 /\ Len(probes) = 6
    /\ \A i \in DOMAIN query_string :
           count_docs(store, instance, <<query_string[i]>>) > 0

====
